---- MODULE Spec2Model ----
(***************************************************************************)
(* Model of the automated data acquisitor: run_acquisition (the            *)
(* Coordinator), CardThread.run (the Acquisition Worker) and crop_data     *)
(* (the Crop Engine).                                                      *)
(*                                                                         *)
(*   Spec        one run of run_acquisition with its CardThreads           *)
(*   SpecThread  the CardThread class driven by an arbitrary client        *)
(*   SpecCrop    crop_data applied to bounded inputs                       *)
(*   SpecDetect  the channel check, save and plot on bounded inputs        *)
(*   SpecSetup   channel configuration and card setup on bounded plans     *)
(***************************************************************************)
EXTENDS Integers, Sequences, FiniteSets, TLC

(* ------------------------------ bounds -------------------------------- *)

\* Number of cards of the stack: stack_enable has one entry per sensors_card_i.
NumCards == 2
\* Largest channel index a plan entry may name.
MaxChannelNo == 1
\* Largest number of SensorParams in one sensors_card_i list.
MaxSensors == 2
\* Samples per channel in a device buffer of a run.
NumSamples == 3
\* Largest sample count / channel count of a matrix handed to crop_data alone.
MaxCropSamples == 4
MaxCropChannels == 3
\* Largest channel count of a matrix handed to the channel check alone.
MaxDetectChannels == 4
\* Durations and the sample rate are multiples of 1/TimeDen, up to MaxTime/TimeDen.
TimeDen == 2
MaxTime == 3

Cards == 0 .. (NumCards - 1)
ChannelNos == 0 .. MaxChannelNo
None == "None"

VARIABLES
    config,        \* the --config file main was started with
    acq_params,    \* the AcqParams of the run
    card_sn,       \* card index -> card.sn()
    cpc,           \* position of run_acquisition
    loop_i,        \* index of the running for-loop over stack.cards / threads
    error,         \* the exception run_acquisition ends with ("none" if none)
    log,           \* calls run_acquisition has made, in order
    armed,         \* cards whose per-card setup has completed
    channel_amp,   \* per channel of Channels(acq_params): the level given to channel.amp
    wpc,           \* card index -> position of its CardThread
    ex_queue,      \* card index -> the ex_queue its CardThread was built with
    faulted,       \* card index -> the fault its device raised ("none" if none)
    exc_queue,     \* the queue.Queue of exceptions (FIFO of card indices)
    buffer,        \* card index -> gated_transfers[i].buffer, <<>> until the DMA is done
    consumed,      \* exceptions run_acquisition took from exc_queue, in order
    data_arr,      \* the matrix data_arr (samples x channels), <<>> before assembly
    crop_window,   \* locals of the last crop_data call
    dissimilar_channels  \* the flags detect_dissimilar_channels returned, <<>> before

vars == <<config, acq_params, card_sn, cpc, loop_i, error, log, armed, channel_amp, wpc,
          ex_queue, faulted, exc_queue, buffer, consumed, data_arr, crop_window,
          dissimilar_channels>>

coordVars == <<config, acq_params, card_sn, cpc, loop_i, error, log, armed, channel_amp,
               consumed, data_arr, crop_window, dissimilar_channels>>

(* ------------------------------ helpers ------------------------------- *)

RECURSIVE SetToSortedSeq(_)
SetToSortedSeq(S) ==
    IF S = {} THEN <<>>
    ELSE LET m == CHOOSE x \in S : \A y \in S : x <= y
         IN <<m>> \o SetToSortedSeq(S \ {m})

Count(s, x) == Cardinality({k \in DOMAIN s : s[k] = x})

Min(a, b) == IF a < b THEN a ELSE b

\* int(a * b) for a = an/TimeDen, b = bn/TimeDen, both non-negative.
IntOfProduct(an, bn) == (an * bn) \div (TimeDen * TimeDen)

(* ------------------------- the acquisition plan ------------------------ *)

\* SensorParams, reduced to the fields the channel lookup reads.
\* The amplification levels differ from entry to entry, so that a calibration
\* names the entry it was configured from.
AmpOf(c, ch) == 1 + ch + c * (MaxChannelNo + 1)

SensorEntries ==
    {[sensor_card |-> c, sensor_channel |-> ch, sensor_amp_level |-> AmpOf(c, ch)] :
        c \in Cards, ch \in ChannelNos}

\* The place of an entry in the order the lists are written in.
EntryKey(e) == e.sensor_card * (MaxChannelNo + 1) + e.sensor_channel

RECURSIVE EntriesInOrder(_)
EntriesInOrder(S) ==
    IF S = {} THEN <<>>
    ELSE LET e == CHOOSE x \in S : \A y \in S : EntryKey(x) <= EntryKey(y)
         IN <<e>> \o EntriesInOrder(S \ {e})

\* sensors_card_i: up to MaxSensors distinct entries. The lookup reads a list
\* only through the entries it holds, so each set of entries is written in
\* one order.
SensorLists ==
    {EntriesInOrder(S) : S \in {T \in SUBSET SensorEntries : Cardinality(T) <= MaxSensors}}

\* card.sn() of the cards of the stack: distinct cards report distinct numbers.
CardSerials == {f \in [Cards -> Cards] : \A i, j \in Cards : i # j => f[i] # f[j]}

\* A call run_acquisition made: val is the value it programmed, the channel
\* it configured, the keyword arguments of a post-processing call, or 1/0 for
\* a call that returned/raised.
Event(op, card, val) == [op |-> op, card |-> card, val |-> val]

\* The keyword arguments of the calls of lines 353-356, 359-361, 373 and 375:
\* data and data_acq_params, and no other.
Arguments(data, p) == [data |-> data, data_acq_params |-> p]
NoCard == 0 - 1

\* A post-processing call made on the matrix and the plan as they are.
Call(op) == Event(op, NoCard, Arguments(data_arr, acq_params))

Logged(op) == \E k \in DOMAIN log : log[k].op = op
LoggedFor(op, i) == \E k \in DOMAIN log : log[k].op = op /\ log[k].card = i
Position(op) == CHOOSE k \in DOMAIN log : log[k].op = op

(* --------------------- run_acquisition: configuration ------------------ *)

\* Channels enabled on card i: CHANNEL0 or-ed with CHANNEL<sensor_channel> of
\* every entry of sensors_card_i.
EnabledChannels(p, i) ==
    {0} \cup {p.sensors_card[i][k].sensor_channel : k \in DOMAIN p.sensors_card[i]}

\* The channels spcm.Channels iterates: card by card, ascending channel index.
RECURSIVE ChannelsFrom(_, _)
ChannelsFrom(p, i) ==
    IF i >= NumCards THEN <<>>
    ELSE LET chs == SetToSortedSeq(EnabledChannels(p, i))
         IN [k \in DOMAIN chs |-> [card |-> i, index |-> chs[k]]] \o ChannelsFrom(p, i + 1)

Channels(p) == ChannelsFrom(p, 0)

\* The lookup searching only the list of the card the channel is on.
ChannelFoundInOwnList(p, sn, ch) ==
    \E c \in Cards :
        /\ card_sn[c] = sn
        /\ \E k \in DOMAIN p.sensors_card[c] :
              /\ p.sensors_card[c][k].sensor_card = sn
              /\ p.sensors_card[c][k].sensor_channel = ch

\* channel_found after the two nested loops over sensors_card_0, sensors_card_1.
ChannelFound(p, sn, ch) ==
    \E c \in Cards : \E k \in DOMAIN p.sensors_card[c] :
        /\ p.sensors_card[c][k].sensor_card = sn
        /\ p.sensors_card[c][k].sensor_channel = ch

\* The level of the last channel.amp call for the channel: the loop over the
\* two lists goes on after a match, and within a list stops at the first match.
AmpFor(p, sn, ch) ==
    LET hit(c) == {k \in DOMAIN p.sensors_card[c] :
                      /\ p.sensors_card[c][k].sensor_card = sn
                      /\ p.sensors_card[c][k].sensor_channel = ch}
        lists == {c \in Cards : hit(c) # {}}
        c == CHOOSE x \in lists : \A y \in lists : x >= y
        k == CHOOSE x \in hit(c) : \A y \in hit(c) : x <= y
    IN p.sensors_card[c][k].sensor_amp_level

\* Index in Channels(p) of the first channel without an entry, 0 if none.
FirstMissing(p, sn) ==
    LET chans == Channels(p)
        miss == {k \in DOMAIN chans : ~ChannelFound(p, sn[chans[k].card], chans[k].index)}
    IN IF miss = {} THEN 0 ELSE CHOOSE k \in miss : \A m \in miss : k <= m

ConfigLog(p, upto) ==
    LET chans == Channels(p)
    IN [k \in 1 .. upto |-> Event("configure_channel", chans[k].card, chans[k].index)]

ConfigAmp(p, sn, upto) ==
    LET chans == Channels(p)
    IN [k \in 1 .. upto |-> AmpFor(p, sn[chans[k].card], chans[k].index)]

\* The configuration loop logging a missing entry without raising.
ConfigureChannelsNoRaise ==
    /\ cpc = "configure_channels"
    /\ LET chans == Channels(acq_params)
       IN /\ log' = log \o ConfigLog(acq_params, Len(chans))
          /\ channel_amp' = [k \in DOMAIN chans |->
                               IF ChannelFound(acq_params, card_sn[chans[k].card],
                                               chans[k].index)
                               THEN AmpFor(acq_params, card_sn[chans[k].card], chans[k].index)
                               ELSE 1]
    /\ cpc' = "setup_cards"
    /\ error' = error
    /\ loop_i' = 0
    /\ UNCHANGED <<config, acq_params, card_sn, armed, wpc, ex_queue, faulted, exc_queue, buffer,
                   consumed, data_arr, crop_window, dissimilar_channels>>

\* Lines 90-157: configure every channel, raise ValueError at the first one
\* that has no entry.
ConfigureChannels ==
    /\ cpc = "configure_channels"
    /\ LET miss == FirstMissing(acq_params, card_sn)
       IN IF miss = 0
          THEN /\ log' = log \o ConfigLog(acq_params, Len(Channels(acq_params)))
               /\ channel_amp' = ConfigAmp(acq_params, card_sn, Len(Channels(acq_params)))
               /\ cpc' = "setup_cards"
               /\ error' = error
          ELSE /\ log' = log \o ConfigLog(acq_params, miss - 1)
               /\ channel_amp' = ConfigAmp(acq_params, card_sn, miss - 1)
               /\ cpc' = "error"
               /\ error' = "config"
    /\ loop_i' = 0
    /\ UNCHANGED <<config, acq_params, card_sn, armed, wpc, ex_queue, faulted, exc_queue, buffer,
                   consumed, data_arr, crop_window, dissimilar_channels>>

(* --------------------- run_acquisition: card setup --------------------- *)

\* The timeout programmed by card.timeout (lines 184-206), in 1/TimeDen s;
\* -1 when card_timeout <= 0 and no timeout is programmed.
CardTimeout(p) ==
    LET total == p.pre_acquisition_duration + p.acquisition_duration
                 + p.post_acquisition_duration
    IN IF p.card_timeout > 0
       THEN IF total >= p.card_timeout THEN total + 5 * TimeDen ELSE p.card_timeout
       ELSE -1

\* 1e6 of lines 240 and 255, and MAX_SAMPLE_NUMBER = 64 * units.MS in samples.
Mega == 1000000
MAX_SAMPLE_NUMBER == 64 * Mega

\* A duration in seconds as the fraction n/d.
Frac(n, d) == [n |-> n, d |-> d]

\* pre + acquisition + post, in 1/TimeDen s.
TotalDuration(p) ==
    p.pre_acquisition_duration + p.acquisition_duration + p.post_acquisition_duration

\* Lines 233-242: int(int(pre + acquisition + post) * sample_rate * 1e6).
NumSamplesOf(p) == (((TotalDuration(p) \div TimeDen) * p.sample_rate) * Mega) \div TimeDen

\* Lines 243-286: the arguments of data_transfer.duration. Above the ceiling
\* the duration is MAX_SAMPLE_NUMBER / (sample_rate * 1e6) and the
\* post-trigger duration that minus pre; else they are as requested.
DurationArgs(p) ==
    IF NumSamplesOf(p) > MAX_SAMPLE_NUMBER
    THEN [duration |-> Frac((MAX_SAMPLE_NUMBER \div Mega) * TimeDen, p.sample_rate),
          post_trigger_duration |->
              Frac((MAX_SAMPLE_NUMBER \div Mega) * TimeDen * TimeDen
                       - p.pre_acquisition_duration * p.sample_rate,
                   p.sample_rate * TimeDen)]
    ELSE [duration |-> Frac(TotalDuration(p), TimeDen),
          post_trigger_duration |->
              Frac(p.acquisition_duration + p.post_acquisition_duration, TimeDen)]

\* The driver calls of one pass of the loop of lines 169-292, in order.
SetupCalls(p, i) ==
    <<Event("function_type", i, 0), Event("card_mode", i, 0)>>
    \o (IF p.card_timeout > 0 THEN <<Event("timeout", i, CardTimeout(p))>> ELSE <<>>)
    \o <<Event("trigger", i, 0), Event("clock", i, 0),
         Event("duration", i, DurationArgs(p)),
         Event("start_buffer_transfer", i, 0)>>

\* The setup loop going on to the next card, and to the start, after a call
\* on a card has raised.
SetupCardFailureSkipsCard ==
    /\ cpc = "setup_cards"
    /\ loop_i < NumCards
    /\ LET calls == SetupCalls(acq_params, loop_i)
       IN \E failAt \in 0 .. Len(calls) :
            /\ log' = log \o (IF failAt = 0 THEN calls ELSE SubSeq(calls, 1, failAt))
            /\ armed' = IF failAt = 0 THEN armed \cup {loop_i} ELSE armed
            /\ loop_i' = loop_i + 1
            /\ cpc' = IF loop_i + 1 = NumCards THEN "sync_enable" ELSE cpc
            /\ error' = IF failAt = 0 THEN error ELSE "setup"
    /\ UNCHANGED <<config, acq_params, card_sn, wpc, ex_queue, faulted, exc_queue, buffer,
                   consumed, data_arr, crop_window, channel_amp,
                   dissimilar_channels>>

\* Lines 169-292 for card loop_i: every call may raise (a card that is not an
\* A/D card raises after function_type); the calls before it have been made.
SetupCard ==
    /\ cpc = "setup_cards"
    /\ loop_i < NumCards
    /\ LET calls == SetupCalls(acq_params, loop_i)
       IN \E failAt \in 0 .. Len(calls) :
            IF failAt = 0
            THEN /\ log' = log \o calls
                 /\ armed' = armed \cup {loop_i}
                 /\ loop_i' = loop_i + 1
                 /\ cpc' = IF loop_i + 1 = NumCards THEN "sync_enable" ELSE cpc
                 /\ error' = error
            ELSE /\ log' = log \o SubSeq(calls, 1, failAt)
                 /\ armed' = armed
                 /\ loop_i' = loop_i
                 /\ cpc' = "error"
                 /\ error' = "setup"
    /\ UNCHANGED <<config, acq_params, card_sn, wpc, ex_queue, faulted, exc_queue, buffer,
                   consumed, data_arr, crop_window, channel_amp,
                   dissimilar_channels>>

(* ------------------ run_acquisition: synchronized start ---------------- *)

\* Line 299: stack.sync_enable(True); it returns or raises.
SyncEnable ==
    /\ cpc = "sync_enable"
    /\ \E ok \in BOOLEAN :
         /\ log' = Append(log, Event("sync_enable", NoCard, IF ok THEN 1 ELSE 0))
         /\ IF ok THEN cpc' = "start" /\ error' = error
                  ELSE cpc' = "error" /\ error' = "start"
    /\ UNCHANGED <<config, acq_params, card_sn, loop_i, armed, wpc, ex_queue, faulted,
                   exc_queue, buffer, consumed, data_arr, crop_window, channel_amp,
                   dissimilar_channels>>

\* A start whose failure is logged and not raised again.
StartFailureIgnored ==
    /\ cpc = "start"
    /\ \E ok \in BOOLEAN :
         /\ log' = Append(log, Event("start", NoCard, IF ok THEN 1 ELSE 0))
         /\ IF ok THEN cpc' = "launch" /\ error' = error
                  ELSE cpc' = "launch" /\ error' = "start"
    /\ loop_i' = 0
    /\ UNCHANGED <<config, acq_params, card_sn, armed, wpc, ex_queue, faulted,
                   exc_queue, buffer, consumed, data_arr, crop_window, channel_amp,
                   dissimilar_channels>>

\* Line 306: stack.start(M2CMD_CARD_ENABLETRIGGER); it returns or raises.
Start ==
    /\ cpc = "start"
    /\ \E ok \in BOOLEAN :
         /\ log' = Append(log, Event("start", NoCard, IF ok THEN 1 ELSE 0))
         /\ IF ok THEN cpc' = "launch" /\ error' = error
                  ELSE cpc' = "error" /\ error' = "start"
    /\ loop_i' = 0
    /\ UNCHANGED <<config, acq_params, card_sn, armed, wpc, ex_queue, faulted,
                   exc_queue, buffer, consumed, data_arr, crop_window, channel_amp,
                   dissimilar_channels>>

(* --------------------------- device buffers ---------------------------- *)

\* A numpy matrix of shape (samples, channels): its rows and its column count.
Matrix(rows, ncols) == [rows |-> rows, ncols |-> ncols]
Shape0(m) == Len(m.rows)
Shape1(m) == m.ncols

\* Raw waveforms a device may record: no pulse, one pulse, or a level that is
\* high throughout.
Flat == [k \in 1 .. NumSamples |-> 0]
Pulse == [k \in 1 .. NumSamples |-> IF k = 1 \/ k = NumSamples THEN 0 ELSE 1]
High == [k \in 1 .. NumSamples |-> 1]
Waveforms == {Flat, Pulse, High}

\* The largest amplification level of a plan.
MaxAmp == AmpOf(NumCards - 1, MaxChannelNo)

\* The raw amplitude of the k-th enabled channel of card i: every input of
\* the stack has its own, and no two of them differ by a factor that is a
\* ratio of amplification levels.
RawScale(i, k) == 1 + (i * (MaxChannelNo + 1) + (k - 1)) * (MaxAmp + 1)

\* gated_transfers[i].buffer once the DMA is done: one row per enabled channel
\* of card i, the channels of a card recording the same waveform, each at its
\* own amplitude.
DeviceBuffers(p, i) ==
    {[k \in 1 .. Cardinality(EnabledChannels(p, i)) |->
         [s \in 1 .. NumSamples |-> w[s] * RawScale(i, k)]] : w \in Waveforms}

(* ----------------------------- CardThread ------------------------------ *)

\* Put that keeps only the newest exception, as an insertion that is not
\* safe under concurrent writers would.
PutLossy(q, e) == <<e>>

\* Lines 75-80, the except clause of run: with a queue the exception is put
\* on it (Queue.put appends under the queue's lock) and run returns; without
\* one it is raised again.
Put(q, e) == Append(q, e)

\* The except clause with the exception swallowed: nothing is put on the queue.
HandleFaultSwallowed(i, kind) ==
    /\ faulted' = [faulted EXCEPT ![i] = kind]
    /\ buffer' = buffer
    /\ exc_queue' = exc_queue
    /\ wpc' = [wpc EXCEPT ![i] = "failed"]

\* The except clause taking the sibling threads down with it.
HandleFaultAbortsSiblings(i, kind) ==
    /\ faulted' = [faulted EXCEPT ![i] = kind]
    /\ buffer' = buffer
    /\ exc_queue' = Put(exc_queue, i)
    /\ wpc' = [j \in Cards |->
                 IF j = i \/ wpc[j] \in {"wait_dma", "read_buffer"} THEN "failed" ELSE wpc[j]]

HandleFault(i, kind) ==
    /\ faulted' = [faulted EXCEPT ![i] = kind]
    /\ buffer' = buffer
    /\ IF ex_queue[i] # None
       THEN /\ exc_queue' = Put(exc_queue, i)
            /\ wpc' = [wpc EXCEPT ![i] = "failed"]
       ELSE /\ exc_queue' = exc_queue
            /\ wpc' = [wpc EXCEPT ![i] = "raised"]

\* Line 73: card_obj.cmd(M2CMD_DATA_WAITDMA) returns when the device has put
\* its data in the buffer, or raises (timeout, driver error).
WaitDMA(i) ==
    /\ wpc[i] = "wait_dma"
    /\ \/ /\ wpc' = [wpc EXCEPT ![i] = "read_buffer"]
          /\ \E b \in DeviceBuffers(acq_params, i) : buffer' = [buffer EXCEPT ![i] = b]
          /\ UNCHANGED <<faulted, exc_queue>>
       \/ HandleFault(i, "wait")
    /\ UNCHANGED <<coordVars, ex_queue>>

\* Line 74: gated_transfer.buffer is read, or the read raises.
ReadBuffer(i) ==
    /\ wpc[i] = "read_buffer"
    /\ \/ /\ wpc' = [wpc EXCEPT ![i] = "completed"]
          /\ UNCHANGED <<faulted, exc_queue, buffer>>
       \/ HandleFault(i, "read")
    /\ UNCHANGED <<coordVars, ex_queue>>

Terminated(i) == wpc[i] \in {"completed", "failed", "raised"}
Running(i) == wpc[i] \in {"wait_dma", "read_buffer"}

(* -------------------- run_acquisition: fan-out / fan-in ---------------- *)

\* Lines 315-323 for card loop_i: CardThread(..., ex_queue=exc_queue), start().
Launch ==
    /\ cpc = "launch"
    /\ loop_i < NumCards
    /\ ex_queue' = [ex_queue EXCEPT ![loop_i] = "exc_queue"]
    /\ wpc' = [wpc EXCEPT ![loop_i] = "wait_dma"]
    /\ log' = Append(log, Event("thread_start", loop_i, 0))
    /\ IF loop_i + 1 = NumCards
       THEN cpc' = "join" /\ loop_i' = 0
       ELSE cpc' = cpc /\ loop_i' = loop_i + 1
    /\ UNCHANGED <<config, acq_params, card_sn, error, armed, faulted, exc_queue, buffer,
                   consumed, data_arr, crop_window, channel_amp,
                   dissimilar_channels>>

\* A join that does not wait.
JoinReturnsAtOnce(i) == TRUE

\* The condition under which t.join() returns for thread i.
JoinReturns(i) == Terminated(i)

\* Lines 326-327 for thread loop_i: t.join() blocks until the thread has ended.
Join ==
    /\ cpc = "join"
    /\ loop_i < NumCards
    /\ JoinReturns(loop_i)
    /\ log' = Append(log, Event("join", loop_i, 0))
    /\ IF loop_i + 1 = NumCards
       THEN cpc' = "check_queue" /\ loop_i' = 0
       ELSE cpc' = cpc /\ loop_i' = loop_i + 1
    /\ UNCHANGED <<config, acq_params, card_sn, error, armed, wpc, ex_queue, faulted,
                   exc_queue, buffer, consumed, data_arr, crop_window, channel_amp,
                   dissimilar_channels>>

\* The queue check treating every queue as empty.
CheckQueueSkipped ==
    /\ cpc = "check_queue"
    /\ log' = Append(log, Event("queue_empty", NoCard, Len(exc_queue)))
    /\ cpc' = "assemble"
    /\ UNCHANGED <<config, acq_params, card_sn, loop_i, error, armed, wpc, ex_queue,
                   faulted, exc_queue, buffer, consumed, data_arr, crop_window, channel_amp,
                   dissimilar_channels>>

\* Line 330: if not exc_queue.empty().
CheckQueue ==
    /\ cpc = "check_queue"
    /\ log' = Append(log, Event("queue_empty", NoCard, Len(exc_queue)))
    /\ cpc' = IF exc_queue # <<>> THEN "drain" ELSE "assemble"
    /\ UNCHANGED <<config, acq_params, card_sn, loop_i, error, armed, wpc, ex_queue,
                   faulted, exc_queue, buffer, consumed, data_arr, crop_window, channel_amp,
                   dissimilar_channels>>

\* A get that empties the queue: the loop of lines 331-333 as a single if.
GetAndClear(q) == [item |-> Head(q), rest |-> <<>>]

\* exc_queue.get(): the head of the queue and the queue without it.
Get(q) == [item |-> Head(q), rest |-> Tail(q)]

\* Lines 331-334: one pass of the while loop (get and log one exception), or,
\* the queue being empty, raise RuntimeError.
Drain ==
    /\ cpc = "drain"
    /\ IF exc_queue # <<>>
       THEN /\ consumed' = Append(consumed, Get(exc_queue).item)
            /\ exc_queue' = Get(exc_queue).rest
            /\ log' = Append(log, Event("queue_get", NoCard, Get(exc_queue).item))
            /\ UNCHANGED <<cpc, error>>
       ELSE /\ cpc' = "error"
            /\ error' = "aggregated"
            /\ UNCHANGED <<consumed, exc_queue, log>>
    /\ UNCHANGED <<config, acq_params, card_sn, loop_i, armed, wpc, ex_queue, faulted, buffer,
                   data_arr, crop_window, channel_amp, dissimilar_channels>>

(* ----------------------- run_acquisition: assembly --------------------- *)

\* channel.convert_data(data, return_unit=V): raw counts scaled by the
\* amplification configured on that channel.
ConvertData(amp, wave) == [k \in DOMAIN wave |-> wave[k] * amp]

\* The loop of lines 340-349 appending the buffers of later cards first.
RECURSIVE ListOfDataLastFirst(_, _, _)
ListOfDataLastFirst(bufs, amps, i) ==
    IF i >= NumCards THEN <<>>
    ELSE ListOfDataLastFirst(bufs, amps, i + 1)
         \o [k \in DOMAIN bufs[i] |-> ConvertData(amps[1], bufs[i][k])]

\* Lines 339-349: for every buffer, for every row, channels[0].convert_data.
RECURSIVE ListOfData(_, _, _)
ListOfData(bufs, amps, i) ==
    IF i >= NumCards THEN <<>>
    ELSE [k \in DOMAIN bufs[i] |-> ConvertData(amps[1], bufs[i][k])]
         \o ListOfData(bufs, amps, i + 1)

\* Line 351: np.array(list_of_data).T
Transposed(list) ==
    Matrix([s \in 1 .. NumSamples |-> [c \in DOMAIN list |-> list[c][s]]], Len(list))

\* Lines 336-351.
Assemble ==
    /\ cpc = "assemble"
    /\ data_arr' = Transposed(ListOfData(buffer, channel_amp, 0))
    /\ log' = log \o [i \in 1 .. NumCards |-> Event("read_buffer", i - 1, 0)]
    /\ cpc' = "crop"
    /\ UNCHANGED <<config, acq_params, card_sn, loop_i, error, armed, channel_amp, wpc,
                   ex_queue, faulted, exc_queue, buffer, consumed, crop_window,
                   dissimilar_channels>>

(* ------------------------------ crop_data ------------------------------ *)

\* a[lo:hi] of numpy for 0 <= lo, 0 <= hi.
PySlice(a, lo, hi) ==
    LET l == Min(lo, Len(a))
        h == Min(hi, Len(a))
    IN IF l < h THEN SubSeq(a, l + 1, h) ELSE <<>>

\* Crossings with a sample equal to the level counted as above it.
CrossingsAtOrAbove(m, trig, level) ==
    {i \in 0 .. (Shape0(m) - 2) :
        (m.rows[i + 1][trig + 1] >= level) # (m.rows[i + 2][trig + 1] >= level)}

\* np.where(np.diff((channel_data > trigger_level).astype(int)) != 0)[0],
\* with 0-based indices, for channel_data = data[:, trig].
Crossings(m, trig, level) ==
    {i \in 0 .. (Shape0(m) - 2) :
        (m.rows[i + 1][trig + 1] > level) # (m.rows[i + 2][trig + 1] > level)}

FirstCross(cr) == CHOOSE c \in cr : \A d \in cr : c <= d
LastCross(cr) == CHOOSE c \in cr : \A d \in cr : c >= d

\* Lines 233-238.
PreTriggerSamples(p) == IntOfProduct(p.pre_acquisition_duration, p.sample_rate)
PostTriggerSamples(p) == IntOfProduct(p.post_acquisition_duration, p.sample_rate)

\* Lines 240-242.
StartIndex(first_cross, pre) == IF first_cross > pre THEN first_cross - pre ELSE 0

\* Lines 243-247: the bound compared against is data.shape[1].
EndIndex(m, last_cross, post) ==
    IF last_cross + post < Shape1(m) THEN last_cross + post ELSE Shape1(m)

NoWindow == [state |-> "not_called", c0 |-> 0, c1 |-> 0, start |-> 0, end |-> 0, length |-> 0]

\* Lines 218-248, crop_data past the with_crop switch: what it raises, what
\* it returns, and its locals first_cross, last_cross, start_index, end_index.
CropAtTrigger(m, p) ==
    IF p.trigger_channel_no >= Shape1(m)
    THEN [raised |-> "IndexError", data |-> m,
          window |-> [NoWindow EXCEPT !.state = "raised", !.length = Shape0(m)]]
    ELSE LET cr == Crossings(m, p.trigger_channel_no, p.trigger_level)
         IN IF cr = {}
            THEN [raised |-> "ValueError", data |-> m,
                  window |-> [NoWindow EXCEPT !.state = "raised", !.length = Shape0(m)]]
            ELSE LET c0 == FirstCross(cr)
                     c1 == LastCross(cr)
                     s == StartIndex(c0, PreTriggerSamples(p))
                     e == EndIndex(m, c1, PostTriggerSamples(p))
                 IN [raised |-> "none",
                     data |-> Matrix(PySlice(m.rows, s, e), m.ncols),
                     window |-> [state |-> "cropped", c0 |-> c0, c1 |-> c1,
                                 start |-> s, end |-> e, length |-> Shape0(m)]]

\* crop_data with the with_crop switch of lines 216-217 ignored.
crop_dataIgnoresSwitch(m, p) == CropAtTrigger(m, p)

\* crop_data with a waveform without crossings passed through uncropped.
crop_dataPassesNoTrigger(m, p) ==
    LET r == CropAtTrigger(m, p)
    IN IF p.with_crop /\ r.raised # "ValueError" THEN r
       ELSE [raised |-> "none", data |-> m,
             window |-> [NoWindow EXCEPT !.state = "identity", !.length = Shape0(m)]]

\* crop_data(data, data_acq_params), lines 216-248.
crop_data(m, p) ==
    IF ~p.with_crop
    THEN [raised |-> "none", data |-> m,
          window |-> [NoWindow EXCEPT !.state = "identity", !.length = Shape0(m)]]
    ELSE CropAtTrigger(m, p)

\* The crop step saving the uncropped matrix when crop_data raises.
CropSavesUncropped ==
    /\ cpc = "crop"
    /\ LET r == crop_data(data_arr, acq_params)
       IN /\ crop_window' = r.window
          /\ IF r.raised = "none"
             THEN /\ data_arr' = r.data
                  /\ log' = Append(log, Call("crop_data"))
                  /\ cpc' = "detect"
                  /\ error' = error
             ELSE /\ data_arr' = data_arr
                  /\ log' = log \o <<Call("crop_data"), Call("save_to_file")>>
                  /\ cpc' = "error"
                  /\ error' = IF r.raised = "ValueError" THEN "no_trigger" ELSE "index"
    /\ UNCHANGED <<config, acq_params, card_sn, loop_i, armed, wpc, ex_queue, faulted,
                   exc_queue, buffer, consumed, channel_amp, dissimilar_channels>>

\* Lines 353-356 (and 376-378 when crop_data raises).
Crop ==
    /\ cpc = "crop"
    /\ LET r == crop_data(data_arr, acq_params)
       IN /\ crop_window' = r.window
          /\ log' = Append(log, Call("crop_data"))
          /\ IF r.raised = "none"
             THEN /\ data_arr' = r.data
                  /\ cpc' = "detect"
                  /\ error' = error
             ELSE /\ data_arr' = data_arr
                  /\ cpc' = "error"
                  /\ error' = IF r.raised = "ValueError" THEN "no_trigger" ELSE "index"
    /\ UNCHANGED <<config, acq_params, card_sn, loop_i, armed, wpc, ex_queue, faulted,
                   exc_queue, buffer, consumed, channel_amp, dissimilar_channels>>

(* -------------------- run_acquisition: post-processing ----------------- *)

\* The matrices of the model hold, in every column, a multiple of one and the
\* same waveform (the multiple may be zero or negative); the correlation of two
\* columns that are not constant is then 1 or -1, and the arithmetic of
\* lines 67-72 is exact.
Column(m, c) == [s \in 1 .. Shape0(m) |-> m.rows[s][c + 1]]

RECURSIVE SumOf(_, _)
SumOf(x, n) == IF n = 0 THEN 0 ELSE x[n] + SumOf(x, n - 1)

\* Line 68, zscore(data, axis=1): a constant waveform has deviation 0 and its
\* normalised waveform is NaN throughout.
IsConstant(x) == \A s \in DOMAIN x : x[s] = x[1]

\* n^2 times the covariance of two waveforms.
Covariance(x, y) ==
    Len(x) * SumOf([s \in DOMAIN x |-> x[s] * y[s]], Len(x)) - SumOf(x, Len(x)) * SumOf(y, Len(y))

\* Line 69, the cosine distance of two normalised waveforms that are not NaN:
\* 1 - correlation.
CosineDistance(x, y) == IF Covariance(x, y) > 0 THEN 0 ELSE 2

\* Line 70 times the channel count: the sum of a channel's distances to the
\* other channels (squareform puts 0 on the diagonal).
SumDists(m, c) ==
    LET d == [j \in 0 .. (Shape1(m) - 1) |->
                 IF j = c THEN 0 ELSE CosineDistance(Column(m, c), Column(m, j))]
    IN SumOf([k \in 1 .. Shape1(m) |-> d[k - 1]], Shape1(m))

\* Lines 71-72 written as not (|z| <= threshold): a NaN z-score is an outlier.
OutlierUnlessWithin(m, thr, c) ==
    LET n == Shape1(m)
        chans == 0 .. (n - 1)
        total == SumOf([k \in 1 .. n |-> SumDists(m, k - 1)], n)
        dev == [j \in chans |-> n * SumDists(m, j) - total]
        ss == SumOf([k \in 1 .. n |-> dev[k - 1] * dev[k - 1]], n)
    IN ~(/\ \A j \in chans : ~IsConstant(Column(m, j))
         /\ ss # 0
         /\ thr >= 0
         /\ n * dev[c] * dev[c] * TimeDen * TimeDen <= thr * thr * ss)

\* Lines 71-72 for channel c: np.abs(zscore(avg_dists))[c] > threshold, for a
\* threshold of thr/TimeDen. The z-score is (avg_dists[c] - mean) / std, its
\* square n * dev[c]^2 / ss; it is NaN, and the comparison false, when a
\* channel is constant (every average is NaN then) or the averages are all
\* equal (zscore returns NaN for constant input).
Outlier(m, thr, c) ==
    LET n == Shape1(m)
        chans == 0 .. (n - 1)
        total == SumOf([k \in 1 .. n |-> SumDists(m, k - 1)], n)
        dev == [j \in chans |-> n * SumDists(m, j) - total]
        ss == SumOf([k \in 1 .. n |-> dev[k - 1] * dev[k - 1]], n)
    IN /\ \A j \in chans : ~IsConstant(Column(m, j))
       /\ ss # 0
       /\ (thr < 0 \/ n * dev[c] * dev[c] * TimeDen * TimeDen > thr * thr * ss)

\* detect_dissimilar_channels without the exclusion of lines 74-75.
detect_dissimilar_channelsNoExclusion(m, p) ==
    [raised |-> "none",
     flags |-> [k \in 1 .. Shape1(m) |->
                   IF Outlier(m, p.sensitivity_threshold, k - 1) THEN 1 ELSE 0]]

\* detect_dissimilar_channels(data, data_acq_params), lines 67-76: the flags
\* it returns (1-based here), or the IndexError of lines 74-75 when the matrix
\* has no channel of the trigger or the emission index.
detect_dissimilar_channels(m, p) ==
    IF p.trigger_channel_no >= Shape1(m) \/ p.emission_on_channel_no >= Shape1(m)
    THEN [raised |-> "IndexError", flags |-> <<>>]
    ELSE [raised |-> "none",
          flags |-> [k \in 1 .. Shape1(m) |->
                        IF k = p.trigger_channel_no + 1 \/ k = p.emission_on_channel_no + 1
                        THEN 0 - 1
                        ELSE IF Outlier(m, p.sensitivity_threshold, k - 1) THEN 1 ELSE 0]]

\* Lines 366-368: identified_channels, the channels the warning names.
IdentifiedChannels(flags) == {k - 1 : k \in {j \in DOMAIN flags : flags[j] > 0}}

\* The channel check aborting the run when it finds a dissimilar channel.
DetectAbortsOnFinding ==
    /\ cpc = "detect"
    /\ IF acq_params.with_channel_check
       THEN LET r == detect_dissimilar_channels(data_arr, acq_params)
            IN /\ log' = Append(log, Call("detect_dissimilar_channels"))
               /\ IF r.raised = "none" /\ IdentifiedChannels(r.flags) = {}
                  THEN /\ dissimilar_channels' = r.flags
                       /\ cpc' = "save"
                       /\ error' = error
                  ELSE /\ dissimilar_channels' = dissimilar_channels
                       /\ cpc' = "error"
                       /\ error' = "index"
       ELSE /\ cpc' = "save"
            /\ UNCHANGED <<dissimilar_channels, log, error>>
    /\ UNCHANGED <<config, acq_params, card_sn, loop_i, armed, channel_amp, wpc,
                   ex_queue, faulted, exc_queue, buffer, consumed, data_arr, crop_window>>

\* The channel check run on the matrix as it was assembled, before crop_data.
DetectOnAssembled ==
    /\ cpc = "detect"
    /\ IF acq_params.with_channel_check
       THEN LET pre_crop == Transposed(ListOfData(buffer, channel_amp, 0))
                r == detect_dissimilar_channels(pre_crop, acq_params)
            IN /\ log' = Append(log, Event("detect_dissimilar_channels", NoCard,
                                            Arguments(pre_crop, acq_params)))
               /\ IF r.raised = "none"
                  THEN /\ dissimilar_channels' = r.flags
                       /\ cpc' = "save"
                       /\ error' = error
                  ELSE /\ dissimilar_channels' = dissimilar_channels
                       /\ cpc' = "error"
                       /\ error' = "index"
       ELSE /\ cpc' = "save"
            /\ UNCHANGED <<dissimilar_channels, log, error>>
    /\ UNCHANGED <<config, acq_params, card_sn, loop_i, armed, channel_amp, wpc,
                   ex_queue, faulted, exc_queue, buffer, consumed, data_arr, crop_window>>

\* Lines 358-371: the channel check, when enabled; a finding is logged as a
\* warning (val: how many channels it names); an IndexError of the check goes
\* to the except clause of lines 376-378.
Detect ==
    /\ cpc = "detect"
    /\ IF acq_params.with_channel_check
       THEN LET r == detect_dissimilar_channels(data_arr, acq_params)
            IN IF r.raised = "none"
               THEN /\ dissimilar_channels' = r.flags
                    /\ log' = log
                         \o <<Call("detect_dissimilar_channels")>>
                         \o (IF IdentifiedChannels(r.flags) # {}
                             THEN <<Event("warning", NoCard,
                                          Cardinality(IdentifiedChannels(r.flags)))>>
                             ELSE <<>>)
                    /\ cpc' = "save"
                    /\ error' = error
               ELSE /\ dissimilar_channels' = dissimilar_channels
                    /\ log' = Append(log, Call("detect_dissimilar_channels"))
                    /\ cpc' = "error"
                    /\ error' = "index"
       ELSE /\ cpc' = "save"
            /\ UNCHANGED <<dissimilar_channels, log, error>>
    /\ UNCHANGED <<config, acq_params, card_sn, loop_i, armed, channel_amp, wpc,
                   ex_queue, faulted, exc_queue, buffer, consumed, data_arr, crop_window>>

\* save_to_file called on the matrix as it was assembled, before crop_data.
SaveAssembled ==
    /\ cpc = "save"
    /\ log' = Append(log, Event("save_to_file", NoCard,
                                Arguments(Transposed(ListOfData(buffer, channel_amp, 0)),
                                          acq_params)))
    /\ cpc' = "plot"
    /\ UNCHANGED <<config, acq_params, card_sn, loop_i, error, armed, channel_amp, wpc,
                   ex_queue, faulted, exc_queue, buffer, consumed, data_arr, crop_window,
                   dissimilar_channels>>

\* Line 373.
Save ==
    /\ cpc = "save"
    /\ log' = Append(log, Call("save_to_file"))
    /\ cpc' = "plot"
    /\ UNCHANGED <<config, acq_params, card_sn, loop_i, error, armed, channel_amp, wpc,
                   ex_queue, faulted, exc_queue, buffer, consumed, data_arr, crop_window,
                   dissimilar_channels>>

\* Line 375.
Plot ==
    /\ cpc = "plot"
    /\ log' = Append(log, Call("plot_data"))
    /\ cpc' = "done"
    /\ UNCHANGED <<config, acq_params, card_sn, loop_i, error, armed, channel_amp, wpc,
                   ex_queue, faulted, exc_queue, buffer, consumed, data_arr, crop_window,
                   dissimilar_channels>>

(* ------------------------- parse_args and main ------------------------- *)

\* The numbers of a configuration are written as in the source ("25.0"):
\* parse_args compares cur_version and data_format and copies the rest.

\* No --config argument, or one that is not a file (line 338).
NoFile == [is_file |-> FALSE, json |-> [k \in {} |-> 0]]

\* A configuration file that names every key the model varies, and one key
\* parse_args does not know.
FullConfigs ==
    [cur_version : {1, 2, 3},
     data_format : {"CSV", "PQT", "XLS"},
     card_timeout : {"60.0"},
     acquisition_duration : {"30.0"},
     post_acquisition_duration : {"3.0"},
     target_file_name : {"run.csv"},
     comment : {"first run"}]

\* The configuration files: every choice of keys of a full one.
ConfigFiles ==
    {[is_file |-> TRUE, json |-> [k \in K |-> f[k]]] :
        f \in FullConfigs, K \in SUBSET {"cur_version", "data_format", "card_timeout",
                                          "acquisition_duration",
                                          "post_acquisition_duration",
                                          "target_file_name", "comment"}}

\* SensorParams(sensor_card=c, sensor_channel=ch), the amplification level as
\* the class defaults it (acquisition_parameters.py, line 96).
DefaultSensor(c, ch) ==
    [sensor_card |-> c, sensor_channel |-> ch, sensor_amp_level |-> "10.0"]

\* default_params, lines 307-335.
DefaultParams ==
    [data_format |-> "PQT",
     card_identifiers |-> <<"/dev/spcm0", "/dev/spcm1">>,
     sync_identifier |-> "sync0",
     channel_amp_level |-> "10.0",
     card_timeout |-> "25.0",
     trigger_level |-> "2.0",
     trigger_channel_no |-> 0,
     emission_on_channel_no |-> 1,
     sample_rate |-> "2.0",
     sensors_card_0 |-> <<DefaultSensor(0, 0), DefaultSensor(0, 1)>>,
     sensors_card_1 |-> <<DefaultSensor(1, 0), DefaultSensor(1, 1)>>,
     acquisition_duration |-> "20.0",
     pre_acquisition_duration |-> "1.0",
     post_acquisition_duration |-> "1.0",
     target_file_name |-> "data.pqt",
     sensitivity_threshold |-> "1.2",
     with_crop |-> "True",
     with_plot |-> "True",
     with_channel_check |-> "False",
     cur_version |-> 1]

\* The defaults of the AcqParams fields the constructor call of lines 381-414
\* does not pass (acquisition_parameters.py, lines 144, 148 and 151).
AcqParamsDefaults ==
    [target_file_name |-> "data.pqt",
     post_acquisition_duration |-> "2.0",
     cur_version |-> 2]

\* Lines 338-361: default_params after the loop over the file's items.
Merged(cfg) ==
    [k \in DOMAIN DefaultParams |->
        IF cfg.is_file /\ k \in DOMAIN cfg.json THEN cfg.json[k] ELSE DefaultParams[k]]

\* Lines 358-361: the keys of the file that are warned about and ignored.
IgnoredKeys(cfg) == IF cfg.is_file THEN DOMAIN cfg.json \ DOMAIN DefaultParams ELSE {}

\* re.match("true", str(value), re.IGNORECASE) on the values of the model.
MatchesTrue(v) == v \in {"True", "true", "TRUE"}

\* parsed_acq_params before parse_args has returned.
NoPlan == [card_identifiers |-> <<>>]

\* Lines 381-414: the AcqParams built from default_params d; the fields the
\* call does not pass are as the class defaults them.
LocalAcqParams(d) ==
    [card_identifiers |-> d.card_identifiers,
     sync_identifier |-> d.sync_identifier,
     sensors_card |-> [i \in Cards |-> IF i = 0 THEN d.sensors_card_0
                                       ELSE d.sensors_card_1],
     card_timeout |-> d.card_timeout,
     trigger_level |-> d.trigger_level,
     trigger_channel_no |-> d.trigger_channel_no,
     emission_on_channel_no |-> d.emission_on_channel_no,
     sample_rate |-> d.sample_rate,
     data_format |-> IF d.data_format = "CSV" THEN "CSV" ELSE "PQT",
     acquisition_duration |-> d.acquisition_duration,
     pre_acquisition_duration |-> d.pre_acquisition_duration,
     sensitivity_threshold |-> d.sensitivity_threshold,
     with_crop |-> MatchesTrue(d.with_crop),
     with_plot |-> MatchesTrue(d.with_plot),
     with_channel_check |-> MatchesTrue(d.with_channel_check),
     target_file_name |-> AcqParamsDefaults.target_file_name,
     post_acquisition_duration |-> AcqParamsDefaults.post_acquisition_duration,
     cur_version |-> AcqParamsDefaults.cur_version]

\* parse_args without the version check of lines 376-380.
parse_argsAnyVersion(cfg) == [raised |-> "none", plan |-> LocalAcqParams(Merged(cfg))]

\* parse_args, lines 336-415: what it raises and the AcqParams it returns.
parse_args(cfg) ==
    IF Merged(cfg).cur_version < 2
    THEN [raised |-> "ValueError", plan |-> NoPlan]
    ELSE [raised |-> "none", plan |-> LocalAcqParams(Merged(cfg))]

\* The warnings of parse_args: one per ignored key, or the one of lines
\* 371-373 when there is no file.
Warnings(cfg) ==
    IF cfg.is_file
    THEN [k \in 1 .. Cardinality(IgnoredKeys(cfg)) |-> Event("warning", NoCard, "ignored_key")]
    ELSE <<Event("warning", NoCard, "no_config")>>

\* main, lines 400-403: parse_args, and run_acquisition on the plan it
\* returns; an exception of parse_args ends main.
ParseArgs ==
    /\ cpc = "parse_args"
    /\ LET r == parse_args(config)
       IN /\ log' = log \o Warnings(config)
          /\ IF r.raised = "none"
             THEN /\ acq_params' = r.plan
                  /\ cpc' = "configure_channels"
                  /\ error' = error
             ELSE /\ acq_params' = acq_params
                  /\ cpc' = "error"
                  /\ error' = "load"
    /\ UNCHANGED <<config, card_sn, loop_i, armed, channel_amp, wpc, ex_queue, faulted,
                   exc_queue, buffer, consumed, data_arr, crop_window,
                   dissimilar_channels>>

(* --------------------------- specifications ---------------------------- *)

\* The plans of a run: every pair of sensor lists, cropping and the channel
\* check on or off, the other fields as AcqParams defaults them.
RunPlans ==
    [sensors_card : [Cards -> SensorLists],
     with_crop : BOOLEAN,
     with_channel_check : BOOLEAN,
     trigger_level : {0},
     trigger_channel_no : {0},
     emission_on_channel_no : {1},
     sample_rate : {2 * TimeDen},
     sensitivity_threshold : {2 * TimeDen},
     pre_acquisition_duration : {2 * TimeDen},
     acquisition_duration : {10 * TimeDen},
     post_acquisition_duration : {2 * TimeDen},
     card_timeout : {5 * TimeDen}]

NoMatrix == Matrix(<<>>, 0)

Init ==
    /\ acq_params \in RunPlans
    /\ config = NoFile
    /\ card_sn \in CardSerials
    /\ cpc = "configure_channels"
    /\ loop_i = 0
    /\ error = "none"
    /\ log = <<>>
    /\ armed = {}
    /\ channel_amp = <<>>
    /\ wpc = [i \in Cards |-> "unstarted"]
    /\ ex_queue = [i \in Cards |-> "unset"]
    /\ faulted = [i \in Cards |-> "none"]
    /\ exc_queue = <<>>
    /\ buffer = [i \in Cards |-> <<>>]
    /\ consumed = <<>>
    /\ data_arr = NoMatrix
    /\ crop_window = NoWindow
    /\ dissimilar_channels = <<>>

Worker(i) == WaitDMA(i) \/ ReadBuffer(i)

Next ==
    \/ ConfigureChannels
    \/ SetupCard
    \/ SyncEnable
    \/ Start
    \/ Launch
    \/ \E i \in Cards : Worker(i)
    \/ Join
    \/ CheckQueue
    \/ Drain
    \/ Assemble
    \/ Crop
    \/ Detect
    \/ Save
    \/ Plot

Spec == Init /\ [][Next]_vars

(* ------------------ the CardThread class under any client -------------- *)

\* Lines 33-54: CardThread(card_index, card_obj, gated_transfer, ex_queue=q),
\* q the client's queue or the default None.
Construct(i, q) ==
    /\ cpc = "client"
    /\ wpc[i] = "unstarted"
    /\ ex_queue' = [ex_queue EXCEPT ![i] = q]
    /\ wpc' = [wpc EXCEPT ![i] = "constructed"]
    /\ UNCHANGED <<coordVars, faulted, exc_queue, buffer>>

\* Thread.start() of a constructed CardThread.
StartThread(i) ==
    /\ cpc = "client"
    /\ wpc[i] = "constructed"
    /\ wpc' = [wpc EXCEPT ![i] = "wait_dma"]
    /\ UNCHANGED <<coordVars, ex_queue, faulted, exc_queue, buffer>>

InitThread ==
    /\ acq_params \in {p \in RunPlans : /\ \A i \in Cards : p.sensors_card[i] = <<>>
                                        /\ p.with_crop /\ ~p.with_channel_check}
    /\ config = NoFile
    /\ card_sn = [i \in Cards |-> i]
    /\ cpc = "client"
    /\ loop_i = 0
    /\ error = "none"
    /\ log = <<>>
    /\ armed = {}
    /\ channel_amp = <<>>
    /\ wpc = [i \in Cards |-> "unstarted"]
    /\ ex_queue = [i \in Cards |-> "unset"]
    /\ faulted = [i \in Cards |-> "none"]
    /\ exc_queue = <<>>
    /\ buffer = [i \in Cards |-> <<>>]
    /\ consumed = <<>>
    /\ data_arr = NoMatrix
    /\ crop_window = NoWindow
    /\ dissimilar_channels = <<>>

NextThread ==
    \/ \E i \in Cards : \E q \in {None, "exc_queue"} : Construct(i, q)
    \/ \E i \in Cards : StartThread(i)
    \/ \E i \in Cards : Worker(i)

SpecThread == InitThread /\ [][NextThread]_vars

(* --------------------------- crop_data alone --------------------------- *)

CropValues == {0, 1, 2}
Times == 0 .. MaxTime

\* A matrix whose column trig is the waveform w; the other columns hold
\* values that name their row and column.
CropMatrix(w, ncols, trig) ==
    Matrix([s \in DOMAIN w |->
               [c \in 1 .. ncols |-> IF c = trig + 1 THEN w[s] ELSE 10 * s + c]],
           ncols)

CropInputs ==
    {<<w, ncols, trig>> :
        w \in UNION {[1 .. n -> CropValues] : n \in 1 .. MaxCropSamples},
        ncols \in 1 .. MaxCropChannels,
        trig \in 0 .. MaxCropChannels}

CropPlans ==
    [sensors_card : {[i \in Cards |-> <<>>]},
     with_crop : BOOLEAN,
     with_channel_check : {FALSE},
     trigger_level : {0, 1},
     trigger_channel_no : 0 .. MaxCropChannels,
     emission_on_channel_no : {1},
     sample_rate : 1 .. MaxTime,
     sensitivity_threshold : {2 * TimeDen},
     pre_acquisition_duration : Times,
     acquisition_duration : {0},
     post_acquisition_duration : Times,
     card_timeout : {5 * TimeDen}]

InitCrop ==
    /\ acq_params \in CropPlans
    /\ \E in \in CropInputs :
         /\ in[3] = acq_params.trigger_channel_no
         /\ data_arr = CropMatrix(in[1], in[2], in[3])
    /\ config = NoFile
    /\ card_sn = [i \in Cards |-> i]
    /\ cpc = "crop"
    /\ loop_i = 0
    /\ error = "none"
    /\ log = <<>>
    /\ armed = {}
    /\ channel_amp = <<>>
    /\ wpc = [i \in Cards |-> "unstarted"]
    /\ ex_queue = [i \in Cards |-> "unset"]
    /\ faulted = [i \in Cards |-> "none"]
    /\ exc_queue = <<>>
    /\ buffer = [i \in Cards |-> <<>>]
    /\ consumed = <<>>
    /\ crop_window = NoWindow
    /\ dissimilar_channels = <<>>

SpecCrop == InitCrop /\ [][Crop]_vars

(* ------------------------ the channel check alone ---------------------- *)

\* A matrix whose column c holds the pulse waveform times sg[c].
DetectMatrix(sg) ==
    Matrix([s \in 1 .. NumSamples |-> [c \in DOMAIN sg |-> Pulse[s] * sg[c]]], Len(sg))

\* Per channel: the waveform inverted, absent, or as it is.
DetectInputs == UNION {[1 .. n -> {0 - 1, 0, 1}] : n \in 1 .. MaxDetectChannels}

\* sensitivity_threshold, in 1/TimeDen: below zero, zero, and up to the default 2.0.
Thresholds == (0 - 1) .. (2 * TimeDen)

DetectPlans ==
    [sensors_card : {[i \in Cards |-> <<>>]},
     with_crop : {TRUE},
     with_channel_check : {TRUE},
     trigger_level : {0},
     trigger_channel_no : 0 .. MaxDetectChannels,
     emission_on_channel_no : 0 .. MaxDetectChannels,
     sample_rate : {2 * TimeDen},
     sensitivity_threshold : Thresholds,
     pre_acquisition_duration : {2 * TimeDen},
     acquisition_duration : {10 * TimeDen},
     post_acquisition_duration : {2 * TimeDen},
     card_timeout : {5 * TimeDen}]

InitDetect ==
    /\ acq_params \in DetectPlans
    /\ \E sg \in DetectInputs : data_arr = DetectMatrix(sg)
    /\ config = NoFile
    /\ card_sn = [i \in Cards |-> i]
    /\ cpc = "detect"
    /\ loop_i = 0
    /\ error = "none"
    /\ log = <<>>
    /\ armed = {}
    /\ channel_amp = <<>>
    /\ wpc = [i \in Cards |-> "unstarted"]
    /\ ex_queue = [i \in Cards |-> "unset"]
    /\ faulted = [i \in Cards |-> "none"]
    /\ exc_queue = <<>>
    /\ buffer = [i \in Cards |-> <<>>]
    /\ consumed = <<>>
    /\ crop_window = NoWindow
    /\ dissimilar_channels = <<>>

NextDetect == Detect \/ Save \/ Plot

SpecDetect == InitDetect /\ [][NextDetect]_vars

(* --------------------------- card setup alone -------------------------- *)

\* sample_rate, in 1/TimeDen MHz: 1, 1 + 1/TimeDen, 2, and the rates at
\* which two seconds, or one, fill the sample memory.
SampleRates ==
    {TimeDen, TimeDen + 1, 2 * TimeDen,
     (MAX_SAMPLE_NUMBER \div (2 * Mega)) * TimeDen, (MAX_SAMPLE_NUMBER \div Mega) * TimeDen}

\* card_timeout, in 1/TimeDen s: negative, zero, one second, and the 5.0 of
\* AcqParams.
CardTimeouts == {0 - TimeDen, 0, TimeDen, 5 * TimeDen}

\* Plans with the default sensor lists and every combination of durations
\* (whole and fractional), sample rate and card_timeout.
SetupPlans ==
    [sensors_card : {[i \in Cards |->
                        <<[sensor_card |-> i, sensor_channel |-> 0,
                           sensor_amp_level |-> AmpOf(i, 0)]>>]},
     with_crop : {TRUE},
     with_channel_check : {FALSE},
     trigger_level : {0},
     trigger_channel_no : {0},
     emission_on_channel_no : {1},
     sample_rate : SampleRates,
     sensitivity_threshold : {2 * TimeDen},
     pre_acquisition_duration : Times,
     acquisition_duration : Times,
     post_acquisition_duration : Times,
     card_timeout : CardTimeouts]

InitSetup ==
    /\ acq_params \in SetupPlans
    /\ config = NoFile
    /\ card_sn = [i \in Cards |-> i]
    /\ cpc = "configure_channels"
    /\ loop_i = 0
    /\ error = "none"
    /\ log = <<>>
    /\ armed = {}
    /\ channel_amp = <<>>
    /\ wpc = [i \in Cards |-> "unstarted"]
    /\ ex_queue = [i \in Cards |-> "unset"]
    /\ faulted = [i \in Cards |-> "none"]
    /\ exc_queue = <<>>
    /\ buffer = [i \in Cards |-> <<>>]
    /\ consumed = <<>>
    /\ data_arr = NoMatrix
    /\ crop_window = NoWindow
    /\ dissimilar_channels = <<>>

NextSetup == ConfigureChannels \/ SetupCard \/ SyncEnable \/ Start

SpecSetup == InitSetup /\ [][NextSetup]_vars

(* ----------------------- main up to the channel setup ------------------ *)

InitLoad ==
    /\ config \in {NoFile} \cup ConfigFiles
    /\ acq_params = NoPlan
    /\ card_sn = [i \in Cards |-> i]
    /\ cpc = "parse_args"
    /\ loop_i = 0
    /\ error = "none"
    /\ log = <<>>
    /\ armed = {}
    /\ channel_amp = <<>>
    /\ wpc = [i \in Cards |-> "unstarted"]
    /\ ex_queue = [i \in Cards |-> "unset"]
    /\ faulted = [i \in Cards |-> "none"]
    /\ exc_queue = <<>>
    /\ buffer = [i \in Cards |-> <<>>]
    /\ consumed = <<>>
    /\ data_arr = NoMatrix
    /\ crop_window = NoWindow
    /\ dissimilar_channels = <<>>

NextLoad == ParseArgs \/ ConfigureChannels

SpecLoad == InitLoad /\ [][NextLoad]_vars

(* ------------------------ the run under fairness ----------------------- *)

\* Plans with one channel per card, cropping and the channel check on or
\* off, and card_timeout zero or the 5.0 of AcqParams.
LivePlans ==
    {p \in SetupPlans :
        /\ p.sample_rate = 2 * TimeDen
        /\ p.pre_acquisition_duration = 0
        /\ p.acquisition_duration = MaxTime
        /\ p.post_acquisition_duration = 0
        /\ p.card_timeout \in {0, 5 * TimeDen}}

InitLive ==
    /\ \E p \in LivePlans : \E crop, check \in BOOLEAN :
          acq_params = [p EXCEPT !.with_crop = crop, !.with_channel_check = check]
    /\ config = NoFile
    /\ card_sn = [i \in Cards |-> i]
    /\ cpc = "configure_channels"
    /\ loop_i = 0
    /\ error = "none"
    /\ log = <<>>
    /\ armed = {}
    /\ channel_amp = <<>>
    /\ wpc = [i \in Cards |-> "unstarted"]
    /\ ex_queue = [i \in Cards |-> "unset"]
    /\ faulted = [i \in Cards |-> "none"]
    /\ exc_queue = <<>>
    /\ buffer = [i \in Cards |-> <<>>]
    /\ consumed = <<>>
    /\ data_arr = NoMatrix
    /\ crop_window = NoWindow
    /\ dissimilar_channels = <<>>

\* The steps of run_acquisition itself, the main thread.
Coordinator ==
    \/ ConfigureChannels \/ SetupCard \/ SyncEnable \/ Start \/ Launch \/ Join
    \/ CheckQueue \/ Drain \/ Assemble \/ Crop \/ Detect \/ Save \/ Plot

\* card.timeout has been called on card i (lines 202-206).
TimeoutConfigured(i) == \E k \in DOMAIN log : log[k].op = "timeout" /\ log[k].card = i

\* The main thread and every started thread keep running; the blocking wait
\* of line 73 returns, with data or by raising, on a device that has a
\* timeout configured, and may block forever on one that has none.
SpecLive ==
    /\ InitLive
    /\ [][Next]_vars
    /\ WF_vars(Coordinator)
    /\ \A i \in Cards : WF_vars(ReadBuffer(i))
    /\ \A i \in Cards : WF_vars(TimeoutConfigured(i) /\ WaitDMA(i))

(* ------------------- runs at the sample-memory ceiling ------------------ *)

\* Plans at the rate at which one second fills the sample memory: a total of
\* MaxTime/TimeDen s stays below the ceiling of line 243 or is clamped,
\* depending on pre_acquisition_duration.
ClampPlans ==
    {p \in SetupPlans :
        /\ p.sample_rate = (MAX_SAMPLE_NUMBER \div Mega) * TimeDen
        /\ p.pre_acquisition_duration \in {0, 1, MaxTime}
        /\ p.acquisition_duration = MaxTime
        /\ p.post_acquisition_duration = 0
        /\ p.card_timeout = 5 * TimeDen}

InitClamp ==
    /\ \E p \in ClampPlans : \E crop \in BOOLEAN : acq_params = [p EXCEPT !.with_crop = crop]
    /\ config = NoFile
    /\ card_sn = [i \in Cards |-> i]
    /\ cpc = "configure_channels"
    /\ loop_i = 0
    /\ error = "none"
    /\ log = <<>>
    /\ armed = {}
    /\ channel_amp = <<>>
    /\ wpc = [i \in Cards |-> "unstarted"]
    /\ ex_queue = [i \in Cards |-> "unset"]
    /\ faulted = [i \in Cards |-> "none"]
    /\ exc_queue = <<>>
    /\ buffer = [i \in Cards |-> <<>>]
    /\ consumed = <<>>
    /\ data_arr = NoMatrix
    /\ crop_window = NoWindow
    /\ dissimilar_channels = <<>>

SpecClamp == InitClamp /\ [][Next]_vars

(* ------------------------------- claims -------------------------------- *)

Reports(i) == Count(exc_queue, i) + Count(consumed, i)
Faulted == {i \in Cards : faulted[i] # "none"}
PostJoinOps == {"queue_empty", "queue_get", "read_buffer", "crop_data",
                "detect_dissimilar_channels", "save_to_file", "plot_data"}
PostJoinPcs == {"check_queue", "drain", "assemble", "crop", "detect", "save", "plot", "done"}
ProcessingOps == {"read_buffer", "crop_data", "detect_dissimilar_channels",
                  "save_to_file", "plot_data"}

\* C1: in a run of run_acquisition every CardThread has at every moment put at
\* most one exception on the failure queue, and once it has ended it either
\* completed the wait and the read without a fault and put nothing, or it put
\* exactly one exception; it never ends any other way.
C1_ExactlyOneOutcome ==
    \A i \in Cards :
        /\ Reports(i) <= 1
        /\ wpc[i] \in {"unstarted", "wait_dma", "read_buffer", "completed", "failed"}
        /\ wpc[i] \in {"unstarted", "wait_dma", "read_buffer"} => Reports(i) = 0
        /\ wpc[i] = "completed" => Reports(i) = 0 /\ faulted[i] = "none"
        /\ wpc[i] = "failed" => Reports(i) = 1 /\ faulted[i] # "none"

\* One thread completed, the other reported a failure.
C1_Witness ==
    \E i, j \in Cards : wpc[i] = "completed" /\ wpc[j] = "failed" /\ Reports(j) = 1

\* C2 (as claimed): however a CardThread was constructed, a fault of the DMA
\* wait or of the buffer read is never raised out of run() and is always on
\* the failure queue.
C2_FaultNeverRaisedOutOfRun ==
    \A i \in Cards :
        /\ wpc[i] # "raised"
        /\ faulted[i] # "none" => Count(exc_queue, i) = 1

\* C3: a fault in one CardThread leaves its siblings alone: a thread is failed
\* exactly when its own device faulted, completed only when its own device did
\* not, and a sibling still running after another thread's fault can take its
\* next step.
C3_NoSiblingAbort ==
    \A i \in Cards :
        /\ wpc[i] = "failed" <=> faulted[i] # "none"
        /\ wpc[i] = "completed" => faulted[i] = "none"
        /\ (Running(i) /\ \E j \in Cards \ {i} : wpc[j] = "failed") => ENABLED Worker(i)

\* One thread has failed while its sibling is still waiting for its device.
C3_Witness ==
    \E i, j \in Cards : i # j /\ wpc[i] = "failed" /\ wpc[j] = "wait_dma"

\* C4: the Coordinator has checked or read the failure queue, read a device
\* buffer, or called crop_data, detect_dissimilar_channels, save_to_file or
\* plot_data only in states where every CardThread has ended.
C4_FullBarrierJoin ==
    ((\E k \in DOMAIN log : log[k].op \in PostJoinOps) \/ cpc \in PostJoinPcs)
        => \A i \in Cards : Terminated(i)

\* The buffers have been read for assembly after a thread took both its steps.
C4_Witness ==
    /\ Logged("read_buffer")
    /\ \A i \in Cards : wpc[i] = "completed"

\* C5: when at least one CardThread has reported a failure, the run never
\* assembles, crops, checks, saves or plots, and when it has ended it has ended
\* with the aggregated error, raised after every thread was joined.
C5_FanInFailureAborts ==
    Faulted # {} =>
        /\ \A k \in DOMAIN log : log[k].op \notin ProcessingOps
        /\ data_arr = NoMatrix
        /\ cpc \notin {"assemble", "crop", "detect", "save", "plot", "done"}
        /\ cpc = "error" =>
             /\ error = "aggregated"
             /\ \A i \in Cards : LoggedFor("join", i)

\* Exactly one of the threads failed and the run ended with the aggregated error.
C5_Witness ==
    /\ Cardinality(Faulted) = 1
    /\ cpc = "error"
    /\ error = "aggregated"

\* C6: when the Coordinator passes the join barrier, the failure queue holds
\* as many exceptions as CardThreads faulted, one for each of them.
C6_NoReportLost ==
    cpc = "check_queue" =>
        /\ Len(exc_queue) = Cardinality(Faulted)
        /\ \A i \in Faulted : Count(exc_queue, i) = 1

\* Both threads faulted and the Coordinator is past the join.
C6_Witness ==
    /\ cpc = "check_queue"
    /\ Faulted = Cards
    /\ Len(exc_queue) = NumCards

\* C7: every exception a CardThread put on the queue is either still on the
\* queue or has been taken from it exactly once; the queue is checked and
\* read only after every thread was joined; and when the aggregated error is
\* raised the queue is empty and every exception has been taken once.
C7_ConsumedExactlyOnce ==
    /\ \A i \in Cards :
         /\ Count(consumed, i) <= 1
         /\ Reports(i) = IF i \in Faulted THEN 1 ELSE 0
    /\ (Logged("queue_empty") \/ Logged("queue_get") \/ consumed # <<>>)
         => \A i \in Cards : LoggedFor("join", i)
    /\ error = "aggregated" =>
         /\ exc_queue = <<>>
         /\ \A i \in Faulted : Count(consumed, i) = 1
         /\ Len(consumed) = Cardinality(Faulted)

\* The aggregated error was raised after two exceptions were taken from the queue.
C7_Witness ==
    /\ error = "aggregated"
    /\ Len(consumed) = NumCards

\* C8: start is called only after sync_enable was called and returned; a
\* CardThread is started only after start was called and returned; and when
\* sync_enable or start raised, no CardThread is ever started.
C8_StartOrdering ==
    /\ Logged("start") =>
         /\ Logged("sync_enable")
         /\ Position("sync_enable") < Position("start")
         /\ log[Position("sync_enable")].val = 1
    /\ \A k \in DOMAIN log : log[k].op = "thread_start" =>
         /\ Logged("start")
         /\ Position("start") < k
         /\ log[Position("start")].val = 1
    /\ (\E i \in Cards : wpc[i] # "unstarted") => Logged("start") /\ error # "start"
    /\ error = "start" =>
         /\ ~Logged("thread_start")
         /\ \A i \in Cards : wpc[i] = "unstarted"

\* Every CardThread has been started.
C8_Witness ==
    \A i \in Cards : LoggedFor("thread_start", i)

\* A physical channel of the stack without an entry for (card.sn(), index).
MissingEntry ==
    \E i \in Cards : \E ch \in EnabledChannels(acq_params, i) :
        ~\E c \in Cards : \E k \in DOMAIN acq_params.sensors_card[c] :
            /\ acq_params.sensors_card[c][k].sensor_card = card_sn[i]
            /\ acq_params.sensors_card[c][k].sensor_channel = ch

\* C9: when some physical channel has no entry in the plan, the run gets no
\* further than the channel configuration: it ends with the configuration
\* error, no card is set up, sync_enable and start are not called, no
\* CardThread is started, and no channel is looked up twice.
C9_ConfigFailsFast ==
    MissingEntry =>
        /\ cpc \in {"configure_channels", "error"}
        /\ cpc = "error" => error = "config"
        /\ armed = {}
        /\ \A k \in DOMAIN log : log[k].op = "configure_channel"
        /\ \A k, m \in DOMAIN log : (k # m) => log[k] # log[m]
        /\ \A i \in Cards : wpc[i] = "unstarted"

\* The configuration error was raised after some channel had been configured.
C9_Witness ==
    /\ error = "config"
    /\ log # <<>>

\* C10 (as claimed): after a crop with at least one crossing,
\* 0 <= start <= c0 <= c1 <= end <= original sample count.
C10_CropWindowOrdered ==
    crop_window.state = "cropped" =>
        /\ 0 <= crop_window.start
        /\ crop_window.start <= crop_window.c0
        /\ crop_window.c0 <= crop_window.c1
        /\ crop_window.c1 <= crop_window.end
        /\ crop_window.end <= crop_window.length

Max(a, b) == IF a > b THEN a ELSE b

\* C11 (as claimed): with cropping enabled and at least one crossing,
\* crop_data returns exactly the samples with index in
\* [max(0, c0 - pre_samples), min(sample_count, c1 + post_samples)).
C11_CropReturnsWindow ==
    [][(cpc = "crop" /\ acq_params.with_crop /\ crop_window'.state = "cropped") =>
          data_arr' =
              Matrix(PySlice(data_arr.rows,
                             Max(0, crop_window'.c0 - PreTriggerSamples(acq_params)),
                             Min(Shape0(data_arr),
                                 crop_window'.c1 + PostTriggerSamples(acq_params))),
                     data_arr.ncols)]_vars

\* C13: with cropping disabled crop_data raises nothing and returns its input
\* as it is, whatever the input: also one without crossings or with the
\* trigger channel index out of range.
C13_NoCropIsIdentity ==
    [][(cpc = "crop" /\ ~acq_params.with_crop) =>
          /\ data_arr' = data_arr
          /\ error' = "none"
          /\ cpc' = "detect"
          /\ crop_window'.state = "identity"]_vars

\* crop_data has returned a matrix that has no column at the trigger channel
\* index, with cropping disabled.
C13_Witness ==
    /\ ~acq_params.with_crop
    /\ cpc = "detect"
    /\ crop_window.state = "identity"
    /\ acq_params.trigger_channel_no >= Shape1(data_arr)
    /\ Shape0(data_arr) = MaxCropSamples

DetectReturned == cpc \in {"save", "plot", "done"} /\ Logged("detect_dissimilar_channels")
TriggerChannel == acq_params.trigger_channel_no
EmissionChannel == acq_params.emission_on_channel_no

AllChannelsIdentical(m) ==
    \A c \in 0 .. (Shape1(m) - 1) : Column(m, c) = Column(m, 0)

\* C15: when all channels of the matrix carry the same waveform, the check
\* flags no channel as dissimilar: every channel other than the trigger and
\* the emission channel is flagged 0, whatever the threshold.
C15_IdenticalChannelsNotFlagged ==
    (DetectReturned /\ AllChannelsIdentical(data_arr)) =>
        \A k \in DOMAIN dissimilar_channels :
            /\ dissimilar_channels[k] # 1
            /\ (k - 1 \notin {TriggerChannel, EmissionChannel}) => dissimilar_channels[k] = 0

\* The check has returned on the largest matrix of identical pulse waveforms,
\* under a threshold every defined z-score exceeds.
C15_Witness ==
    /\ DetectReturned
    /\ AllChannelsIdentical(data_arr)
    /\ Shape1(data_arr) = MaxDetectChannels
    /\ ~IsConstant(Column(data_arr, 0))
    /\ acq_params.sensitivity_threshold < 0

\* C18: a run ends in an error at the channel check only when the check itself
\* raised (the matrix has no channel of the trigger or emission index), never
\* because of the flags; once the check has returned, whatever the flags, the
\* run can and does go on to save_to_file and then plot_data, with the matrix
\* the check was given.
C18_FindingNeverAborts ==
    /\ cpc = "error" =>
          (TriggerChannel >= Shape1(data_arr) \/ EmissionChannel >= Shape1(data_arr))
    /\ (DetectReturned /\ cpc = "save") => ENABLED Save
    /\ (DetectReturned /\ cpc = "plot") => Logged("save_to_file") /\ ENABLED Plot
    /\ (DetectReturned /\ cpc = "done") =>
          /\ Logged("save_to_file") /\ Logged("plot_data")
          /\ Position("detect_dissimilar_channels") < Position("save_to_file")
          /\ Position("save_to_file") < Position("plot_data")
          /\ error = "none"

\* A run has ended after the check flagged every channel it may flag, at
\* least two of them, and logged its warning.
C18_Witness ==
    /\ cpc = "done"
    /\ Logged("warning")
    /\ Cardinality(IdentifiedChannels(dissimilar_channels)) >= 2
    /\ \A k \in DOMAIN dissimilar_channels : dissimilar_channels[k] # 0
    /\ Logged("save_to_file") /\ Logged("plot_data")

\* The matrix the assembly builds from the buffers the devices delivered.
Assembled == Transposed(ListOfData(buffer, channel_amp, 0))

\* C12: in a run with cropping enabled whose assembled trigger channel has no
\* crossing (all samples above the level, or none), once crop_data has been
\* called the run has ended with the no-trigger error, crop_data returned
\* nothing (the matrix is still the assembled one), and neither the channel
\* check nor save_to_file nor plot_data has been called.
C12_NoTriggerAborts ==
    (acq_params.with_crop /\ Logged("crop_data")
       /\ Crossings(Assembled, TriggerChannel, acq_params.trigger_level) = {}) =>
        /\ cpc = "error"
        /\ error = "no_trigger"
        /\ crop_window.state = "raised"
        /\ data_arr = Assembled
        /\ \A k \in DOMAIN log :
              log[k].op \notin {"detect_dissimilar_channels", "save_to_file", "plot_data"}

\* The run has ended with the no-trigger error on a trigger channel that is
\* above the level throughout.
C12_Witness ==
    /\ error = "no_trigger"
    /\ Shape0(data_arr) = NumSamples
    /\ \A s \in 1 .. Shape0(data_arr) :
          data_arr.rows[s][TriggerChannel + 1] > acq_params.trigger_level

\* C19: save_to_file has been called only in runs without an error: a run that
\* has ended with the configuration error, a setup or start error, the
\* aggregated error of a reported device fault, or the no-trigger error has
\* not called it, and no run with a device fault ever calls it.
C19_NoFileOnFatalError ==
    /\ (cpc = "error" \/ error # "none") => ~Logged("save_to_file")
    /\ Faulted # {} => ~Logged("save_to_file")
    /\ cpc = "error" =>
          error \in {"config", "setup", "start", "aggregated", "no_trigger", "index"}

\* The run has ended with the no-trigger error, the last fatal error before
\* save_to_file, with every device buffer assembled.
C19_Witness ==
    /\ cpc = "error"
    /\ error = "no_trigger"
    /\ Logged("read_buffer")
    /\ \A i \in Cards : wpc[i] = "completed"
    /\ acq_params.with_channel_check

\* The number of channels of the devices before device d.
RECURSIVE ChannelsBefore(_)
ChannelsBefore(d) == IF d = 0 THEN 0 ELSE ChannelsBefore(d - 1) + Len(buffer[d - 1])

\* C20: right after assembly the matrix has as many channels as the device
\* buffers have rows together, and the k-th row of the buffer of device d,
\* converted to volts, is the column at position
\* (rows of the buffers of the devices before d) + k.
C20_AssemblyOrder ==
    cpc = "crop" =>
        /\ Shape1(data_arr) = ChannelsBefore(NumCards)
        /\ Shape0(data_arr) = NumSamples
        /\ \A d \in Cards : \A k \in DOMAIN buffer[d] :
              \E a \in 1 .. MaxAmp : \A s \in 1 .. NumSamples :
                  data_arr.rows[s][ChannelsBefore(d) + k] = a * buffer[d][k][s]

\* A matrix has been assembled from two buffers of more than one row each,
\* the devices having recorded different waveforms, neither of them flat.
C20_Witness ==
    /\ cpc = "crop"
    /\ \A d \in Cards : Len(buffer[d]) > 1 /\ ~IsConstant(buffer[d][1])
    /\ buffer[0][1] # buffer[1][1]

\* The arguments of the data_transfer.duration calls made so far.
ArmedDurations == {log[k].val : k \in {j \in DOMAIN log : log[j].op = "duration"}}

\* duration * sample_rate <= ceiling, for a duration n/d s and a rate in 1/TimeDen MHz.
WithinCeiling(f, rate) == f.n * rate <= (MAX_SAMPLE_NUMBER \div Mega) * f.d * TimeDen

\* (pre + main + post) * sample_rate > ceiling.
RequestExceedsCeiling(p) ==
    TotalDuration(p) * p.sample_rate > (MAX_SAMPLE_NUMBER \div Mega) * TimeDen * TimeDen

\* C16 (as claimed): for every plan whose (pre + main + post) x sample_rate
\* exceeds the ceiling, the duration armed on a device times the sample rate
\* is at most the ceiling, and the armed duration minus the armed post-trigger
\* duration is the plan's pre-trigger duration.
C16_ClampedToCeiling ==
    RequestExceedsCeiling(acq_params) =>
        \A a \in ArmedDurations :
            /\ WithinCeiling(a.duration, acq_params.sample_rate)
            /\ (a.duration.n * a.post_trigger_duration.d
                   - a.post_trigger_duration.n * a.duration.d) * TimeDen
               = acq_params.pre_acquisition_duration
                   * a.duration.d * a.post_trigger_duration.d

\* C17 (as claimed): for every plan, the duration armed on a device times the
\* sample rate never exceeds the ceiling.
C17_ArmedWithinCeiling ==
    \A k \in DOMAIN log :
        log[k].op = "duration" => WithinCeiling(log[k].val.duration, acq_params.sample_rate)

\* C21 (as claimed): right after assembly, for every device d and every row k
\* of its buffer, the column of (d, k) is the raw row converted with the
\* amplification configured for the channel of (d, k) itself.
C21_OwnCalibrationApplied ==
    cpc = "crop" =>
        \A d \in Cards : \A k \in DOMAIN buffer[d] :
            Column(data_arr, ChannelsBefore(d) + k - 1)
                = ConvertData(channel_amp[ChannelsBefore(d) + k], buffer[d][k])

\* C22 (as claimed): in a run with the channel check enabled, save_to_file
\* is called with the matrix, the plan, and one more argument that is the
\* flag list the channel check returned.
C22_FlagsHandedToSave ==
    \A k \in DOMAIN log :
        (log[k].op = "save_to_file" /\ acq_params.with_channel_check) =>
            /\ log[k].val.data = data_arr
            /\ log[k].val.data_acq_params = acq_params
            /\ \E a \in DOMAIN log[k].val \ {"data", "data_acq_params"} :
                  log[k].val[a] = dissimilar_channels

\* The configuration file names key k.
InFile(k) == config.is_file /\ k \in DOMAIN config.json

\* parse_args has returned a plan and main has entered run_acquisition.
PlanReturned == cpc \notin {"parse_args", "error"}

\* C23: for a configuration file whose cur_version is below 2, parse_args
\* raises: main ends with the load error, no plan has been returned, and
\* run_acquisition is never entered, so it makes no call.
C23_OldVersionIsFatal ==
    (InFile("cur_version") /\ config.json.cur_version < 2) =>
        /\ cpc \in {"parse_args", "error"}
        /\ cpc = "error" => error = "load"
        /\ acq_params = NoPlan
        /\ \A k \in DOMAIN log : log[k].op = "warning"

\* main has ended with the load error on a file of version 1 that is
\* otherwise well-formed (its data_format is PQT).
C23_Witness ==
    /\ cpc = "error"
    /\ error = "load"
    /\ InFile("cur_version") /\ config.json.cur_version = 1
    /\ InFile("data_format") /\ config.json.data_format = "PQT"

\* C24 (as claimed): for a configuration file whose data_format is neither CSV
\* nor PQT, main ends with an error before run_acquisition is entered: no
\* plan is returned.
C24_UnsupportedFormatRejected ==
    (InFile("data_format") /\ config.json.data_format \notin {"CSV", "PQT"}) =>
        /\ ~PlanReturned
        /\ acq_params = NoPlan

\* The keys of C30 whose values parse_args copies without conversion.
CopiedKeys ==
    {"card_timeout", "acquisition_duration", "post_acquisition_duration", "target_file_name"}

\* C30 (as claimed): in the plan parse_args returns, every recognized key the
\* file names has the file's value and every other one the default of
\* default_params, and a key that is not recognized leaves a warning only.
C30_ConfigMerge ==
    PlanReturned =>
        /\ \A k \in CopiedKeys :
              acq_params[k] = IF InFile(k) THEN config.json[k] ELSE DefaultParams[k]
        /\ InFile("comment") => \E k \in DOMAIN log : log[k].op = "warning"

\* round(n / d) as Python rounds: to the nearest integer, a half to the even one.
Round(n, d) ==
    LET q == n \div d
        r == n % d
    IN IF 2 * r < d THEN q
       ELSE IF 2 * r > d THEN q + 1
       ELSE IF q % 2 = 0 THEN q ELSE q + 1

\* round((pre + main + post) x sample_rate), in samples, the rate being in MHz.
RoundedSamples(p) ==
    LET a == TotalDuration(p) * p.sample_rate
        dd == TimeDen * TimeDen
    IN (a \div dd) * Mega + Round((a % dd) * Mega, dd)

\* C25 (as claimed): for every plan whose devices have been armed, the sample
\* count compared against the ceiling is round((pre + main + post) x
\* sample_rate), fractional totals included.
C25_SampleCountIsRounded ==
    \A k \in DOMAIN log :
        log[k].op = "duration" => NumSamplesOf(acq_params) = RoundedSamples(acq_params)

\* The timeout C27 requires: pre + main + post plus five seconds when that
\* total reaches card_timeout, else card_timeout.
RequiredTimeout(p) ==
    IF TotalDuration(p) >= p.card_timeout
    THEN TotalDuration(p) + 5 * TimeDen
    ELSE p.card_timeout

\* C27 (as claimed): for every plan, when the start command is given every
\* device has been programmed with a timeout, that timeout is above
\* pre + main + post, and it is the total plus five seconds when the total
\* reaches card_timeout and card_timeout otherwise.
C27_TimeoutCoversAcquisition ==
    \A k \in DOMAIN log :
        log[k].op = "start" =>
            \A i \in Cards :
                \E j \in 1 .. (k - 1) :
                    /\ log[j].op = "timeout" /\ log[j].card = i
                    /\ log[j].val > TotalDuration(acq_params)
                    /\ log[j].val = RequiredTimeout(acq_params)

\* The place of a post-processing call in the order of lines 353-375.
Rank(op) ==
    IF op = "crop_data" THEN 1
    ELSE IF op = "detect_dissimilar_channels" THEN 2
    ELSE IF op = "save_to_file" THEN 3
    ELSE 4

PostProcessingCalls ==
    {"crop_data", "detect_dissimilar_channels", "save_to_file", "plot_data"}

\* C26: the post-processing calls are made at most once each and in the
\* order crop_data, channel check, save_to_file, plot_data; save_to_file is
\* called after crop_data and, with the check enabled, after the check, and
\* plot_data after save_to_file; the check and save_to_file are called on the
\* matrix crop_data returned for the assembled one; with with_channel_check
\* false the check is never called.
C26_PostProcessingOrder ==
    /\ LET calls == {k \in DOMAIN log : log[k].op \in PostProcessingCalls}
       IN \A j, k \in calls : j < k => Rank(log[j].op) < Rank(log[k].op)
    /\ Logged("plot_data") => Logged("save_to_file")
    /\ Logged("save_to_file") =>
          /\ Logged("crop_data")
          /\ acq_params.with_channel_check => Logged("detect_dissimilar_channels")
    /\ Logged("detect_dissimilar_channels") =>
          /\ acq_params.with_channel_check
          /\ Logged("crop_data")
    /\ \A k \in DOMAIN log :
          log[k].op \in {"detect_dissimilar_channels", "save_to_file"} =>
              log[k].val.data = crop_data(Assembled, acq_params).data

\* A run with cropping and the check enabled has ended after plot_data, the
\* check having been called on a matrix shorter than the assembled one.
C26_Witness ==
    /\ cpc = "done"
    /\ acq_params.with_crop /\ acq_params.with_channel_check
    /\ Logged("plot_data")
    /\ Shape0(log[Position("detect_dissimilar_channels")].val.data) < Shape0(Assembled)

\* Every thread of the run has been started.
Launched == \A i \in Cards : wpc[i] # "unstarted"

\* The run has ended: with save_to_file called, or with an error.
RunEnded == (cpc = "done" /\ Logged("save_to_file")) \/ cpc = "error"

\* C28 (as claimed): every run that has started its threads eventually has
\* every thread terminated and the join passed, and ends with the results
\* saved or with an error.
C28_LaunchedRunTerminates ==
    Launched ~> (RunEnded /\ \A i \in Cards : Terminated(i) /\ LoggedFor("join", i))

\* C29: on a matrix that has the trigger channel, crop_data with cropping
\* enabled finds a crossing exactly when for some i in 0 .. samples - 2 one of
\* x[i], x[i+1] is above the level (strictly) and the other is not; c0 is the
\* smallest such i and c1 the largest, whichever way the level is crossed.
C29_CrossingDetection ==
    [][(cpc = "crop" /\ acq_params.with_crop
          /\ acq_params.trigger_channel_no < Shape1(data_arr)) =>
        LET x == [i \in 0 .. (Shape0(data_arr) - 1) |->
                     data_arr.rows[i + 1][acq_params.trigger_channel_no + 1]]
            level == acq_params.trigger_level
            IsCrossing(i) == \/ x[i] > level /\ x[i + 1] <= level
                             \/ x[i] <= level /\ x[i + 1] > level
            all == {i \in 0 .. (Shape0(data_arr) - 2) : IsCrossing(i)}
        IN IF all = {}
           THEN crop_window'.state = "raised"
           ELSE /\ crop_window'.state = "cropped"
                /\ crop_window'.c0 \in all /\ \A i \in all : crop_window'.c0 <= i
                /\ crop_window'.c1 \in all /\ \A i \in all : i <= crop_window'.c1
      ]_vars

\* crop_data has found a first and a later last crossing, the first one from
\* a sample equal to the level to one above it.
C29_Witness ==
    /\ crop_window.state = "cropped"
    /\ crop_window.c0 < crop_window.c1
    /\ crop_window.start = crop_window.c0
    /\ Shape0(data_arr) >= 2
    /\ data_arr.rows[1][acq_params.trigger_channel_no + 1] = acq_params.trigger_level
    /\ data_arr.rows[2][acq_params.trigger_channel_no + 1] > acq_params.trigger_level

\* C31 (as claimed): when there is no configuration file, or the file does
\* not set cur_version, parse_args returns a plan once it has run, and main
\* enters run_acquisition with it; without a file the plan has the values of
\* default_params.
C31_FallsBackToDefaults ==
    (~InFile("cur_version") /\ cpc # "parse_args") =>
        /\ PlanReturned
        /\ error = "none"
        /\ ~config.is_file =>
              /\ acq_params.card_timeout = DefaultParams.card_timeout
              /\ acq_params.acquisition_duration = DefaultParams.acquisition_duration
              /\ acq_params.sensors_card[0] = DefaultParams.sensors_card_0

\* The branch of line 243 is taken: the plan's sample count is above the ceiling.
Clamped == NumSamplesOf(acq_params) > MAX_SAMPLE_NUMBER

\* C32 (as claimed): in a run whose sample count was clamped, the plan handed
\* to crop_data and to save_to_file carries the adjusted durations: its total
\* duration is the duration armed on the devices, and its acquisition plus
\* post-acquisition duration is the armed post-trigger duration.
C32_LaterStagesUseClampedPlan ==
    Clamped =>
        \A k \in DOMAIN log :
            log[k].op \in {"crop_data", "save_to_file"} =>
                \A a \in ArmedDurations :
                    LET q == log[k].val.data_acq_params
                    IN /\ TotalDuration(q) * a.duration.d = a.duration.n * TimeDen
                       /\ (q.acquisition_duration + q.post_acquisition_duration)
                              * a.post_trigger_duration.d
                          = a.post_trigger_duration.n * TimeDen

\* C33 (as claimed): for every plan with non-negative durations, the
\* post-trigger duration armed on a device is at least 0 and at most the
\* armed duration, whether or not the sample count was clamped.
C33_PostTriggerWithinTotal ==
    (/\ acq_params.pre_acquisition_duration >= 0
     /\ acq_params.acquisition_duration >= 0
     /\ acq_params.post_acquisition_duration >= 0) =>
        \A a \in ArmedDurations :
            /\ a.post_trigger_duration.n >= 0
            /\ a.post_trigger_duration.n * a.duration.d
                  <= a.duration.n * a.post_trigger_duration.d

\* C34: a run in which a setup call on some device has raised has ended with
\* the setup error without calling sync_enable or start and without starting
\* a thread, whatever devices were set up before; and sync_enable is called
\* only when every device has been set up completely.
C34_SetupFailureAborts ==
    /\ error = "setup" =>
          /\ cpc = "error"
          /\ \A k \in DOMAIN log : log[k].op \notin {"sync_enable", "start", "thread_start"}
          /\ \A i \in Cards : wpc[i] = "unstarted"
    /\ Logged("sync_enable") =>
          /\ error # "setup"
          /\ armed = Cards
          /\ \A i \in Cards : LoggedFor("start_buffer_transfer", i)

\* The first device has been set up completely and the setup of the second
\* one has raised right after function_type (not an A/D card).
C34_Witness ==
    /\ error = "setup"
    /\ armed = {0}
    /\ log[Len(log)] = Event("function_type", 1, 0)

\* The channel indices listed in sensors_card_i, together with channel 0.
ListedChannels(i) ==
    {0} \cup {ch \in ChannelNos :
                \E k \in DOMAIN acq_params.sensors_card[i] :
                    acq_params.sensors_card[i][k].sensor_channel = ch}

\* Some entry of list c names card i (by card.sn()) and channel ch.
EntryIn(c, i, ch) ==
    \E k \in DOMAIN acq_params.sensors_card[c] :
        /\ acq_params.sensors_card[c][k].sensor_card = card_sn[i]
        /\ acq_params.sensors_card[c][k].sensor_channel = ch

\* The channels configured so far, as (card, channel index).
ConfiguredChannels ==
    {<<log[k].card, log[k].val>> : k \in {j \in DOMAIN log : log[j].op = "configure_channel"}}

\* The configuration step is over and no device has been set up yet.
ConfigJustDone == cpc \in {"setup_cards", "error"} /\ armed = {}

\* Once the configuration step is over: it succeeded exactly when every
\* listed channel (and channel 0) of every card has an entry for that card
\* and channel in one of the lists, and then exactly those channels were
\* configured.
ConfigSucceedsIffEntries ==
    /\ (error # "config") <=>
          \A i \in Cards : \A ch \in ListedChannels(i) : \E c \in Cards : EntryIn(c, i, ch)
    /\ error # "config" =>
          ConfiguredChannels = {x \in Cards \X ChannelNos : x[2] \in ListedChannels(x[1])}

\* C35 (as claimed): enabling and lookup agree as above, and a plan whose
\* list for a card has no channel-0 entry for that card fails with the
\* configuration error.
C35_EnablingAndLookupAgree ==
    ConfigJustDone =>
        /\ ConfigSucceedsIffEntries
        /\ \A i \in Cards : ~EntryIn(i, i, 0) => error = "config"

\* C35 (amended): enabling and lookup agree as above, and a plan in which
\* neither list has a channel-0 entry for some card fails with the
\* configuration error.
C35_LookupSearchesBothLists ==
    ConfigJustDone =>
        /\ ConfigSucceedsIffEntries
        /\ \A i \in Cards : (\A c \in Cards : ~EntryIn(c, i, 0)) => error = "config"

\* The configuration has succeeded on a plan whose list for card 0 has no
\* channel-0 entry for it: the entry is in the list of card 1.
C35_Witness ==
    /\ cpc = "setup_cards"
    /\ ~EntryIn(0, 0, 0)
    /\ EntryIn(1, 0, 0)

\* C36: every step other than the assembly and crop_data leaves the matrix as
\* it is (the channel check included); the crop step replaces it by a
\* contiguous range of its rows with the same channels in the same order, and
\* by itself when cropping is disabled; and save_to_file and plot_data are
\* called on the matrix crop_data returned for the assembled one.
C36_MatrixChangesOnlyByCrop ==
    [][/\ cpc \notin {"assemble", "crop"} => data_arr' = data_arr
       /\ cpc = "crop" =>
             /\ Shape1(data_arr') = Shape1(data_arr)
             /\ \E lo, hi \in 0 .. Shape0(data_arr) :
                   /\ lo <= hi
                   /\ data_arr'.rows = [k \in 1 .. (hi - lo) |-> data_arr.rows[lo + k]]
             /\ ~acq_params.with_crop => data_arr' = data_arr
       /\ \A k \in DOMAIN log' \ DOMAIN log :
             log'[k].op \in {"save_to_file", "plot_data"} =>
                 /\ log'[k].val.data = data_arr
                 /\ log'[k].val.data = crop_data(Assembled, acq_params).data
      ]_vars

\* A run with cropping and the channel check enabled has ended after
\* plot_data was called on a matrix of fewer rows than were assembled.
C36_Witness ==
    /\ cpc = "done"
    /\ acq_params.with_crop /\ acq_params.with_channel_check
    /\ Shape0(data_arr) > 0 /\ Shape0(data_arr) < NumSamples
    /\ log[Position("plot_data")].val.data = data_arr

====
